---------------------------- MODULE Spec2Model ----------------------------
(***************************************************************************)
(* The NCF quick-start notebook (examples/00_quick_start/ncf_movielens)    *)
(* as a state machine: the kernel runs the code cells one after another;   *)
(* every cell is a step that is started, and then either completes or      *)
(* raises.  Data frames are sequences of rows, files are header/row        *)
(* tables, metrics are exact fractions.                                    *)
(***************************************************************************)
EXTENDS Integers, Sequences, FiniteSets, TLC

(***************************************************************************)
(* Bounds of the model and constants of the notebook.                      *)
(***************************************************************************)
\* most rows of the downloaded ratings table
MaxRows == 5
\* notebook parameters
TOP_K == 10
EPOCHS == 50
SEED == 42
\* python_chrono_split(df, 0.75): the ratio in hundredths
SplitRatio == 75

\* seconds the stored outputs report: one epoch of fit, the prediction cell
EpochSeconds == 22
PredictSeconds == 3
\* the epochs the stored run had completed when fit was interrupted
InterruptedAfter == 7

\* universe of user and item identifiers and timestamps of the bounded table
Users == {1, 2}
Items == {1, 2, 3, 4}
Times == {1, 2}
\* scores model.predict can give
Scores == {0, 1}

\* header=["userID", "itemID", "rating", "timestamp"]
Columns == <<"userID", "itemID", "rating", "timestamp">>

train_file == "./train.csv"
test_file == "./test.csv"
test_full_file == "./test_full.csv"

\* a missing cell value (NaN) is the empty tuple, a present one <<v>>
NaN == <<>>
isnull(x) == x = NaN

(***************************************************************************)
(* Sequences as columns and frames.                                        *)
(***************************************************************************)
Range(s) == {s[k] : k \in 1..Len(s)}

\* d[c]: one column of a frame
Column(d, c) == [k \in 1..Len(d) |-> d[k][c]]

\* Series.unique(): the values in order of first appearance
RECURSIVE unique(_)
unique(s) ==
  IF s = <<>> THEN <<>>
  ELSE LET h == unique(SubSeq(s, 1, Len(s) - 1))
       IN IF s[Len(s)] \in Range(h) THEN h ELSE Append(h, s[Len(s)])

\* Series.isin(values)
isin(x, values) == x \in Range(values)

\* the rows kept by a boolean mask, frame[mask]
RECURSIVE Mask(_, _)
Mask(d, keep) ==
  IF d = <<>> THEN <<>>
  ELSE LET rest == Mask(SubSeq(d, 1, Len(d) - 1), SubSeq(keep, 1, Len(d) - 1))
       IN IF keep[Len(d)] THEN Append(rest, d[Len(d)]) ELSE rest

(***************************************************************************)
(* The ratings table movielens.load_pandas_df can return, within the       *)
(* bounds: every user rates an item at most once, rows are grouped by user *)
(* as in the MovieLens files, the index is 0..n-1.                         *)
(***************************************************************************)
\* a rating 1..5 for each (user, item) of the universe
RatingOf(u, i) == 1 + ((2 * u + i) % 5)

PairBefore(p, q) == p[1] < q[1] \/ (p[1] = q[1] /\ p[2] < q[2])

RECURSIVE SetToSortedSeq(_)
SetToSortedSeq(S) ==
  IF S = {} THEN <<>>
  ELSE LET m == CHOOSE p \in S : \A q \in S \ {p} : PairBefore(q, p)
       IN Append(SetToSortedSeq(S \ {m}), m)

RatingsFrame(present, ts) ==
  LET ps == SetToSortedSeq(present)
  IN [k \in 1..Len(ps) |->
        [index |-> k - 1, userID |-> ps[k][1], itemID |-> ps[k][2],
         rating |-> RatingOf(ps[k][1], ps[k][2]), timestamp |-> ts[ps[k]]]]

(***************************************************************************)
(* python_chrono_split(df, ratio): per user, the rows in timestamp order,  *)
(* the first round(ratio * n) of the user's n rows to train, the rest to   *)
(* test.                                                                   *)
(***************************************************************************)
\* Python's round(pct * n / 100): to the nearest, a half to the even one
RoundPct(pct, n) ==
  LET q == (pct * n) \div 100
      r == (pct * n) % 100
  IN IF r > 50 \/ (r = 50 /\ q % 2 = 1) THEN q + 1 ELSE q

UserTimeBefore(a, b) ==
  a.userID < b.userID \/ (a.userID = b.userID /\ a.timestamp < b.timestamp)

\* stable insertion of row r into a frame sorted by user and timestamp
RECURSIVE InsertSorted(_, _)
InsertSorted(s, r) ==
  IF s = <<>> THEN <<r>>
  ELSE IF UserTimeBefore(r, s[Len(s)])
       THEN Append(InsertSorted(SubSeq(s, 1, Len(s) - 1), r), s[Len(s)])
       ELSE Append(s, r)

\* DataFrame.sort_values([user, timestamp]), stable
RECURSIVE SortByUserTime(_)
SortByUserTime(s) ==
  IF s = <<>> THEN <<>>
  ELSE InsertSorted(SortByUserTime(SubSeq(s, 1, Len(s) - 1)), s[Len(s)])

\* 1-based position of row k among the rows of its user
RankInUser(d, k) == Cardinality({j \in 1..k : d[j].userID = d[k].userID})
CountOfUser(d, u) == Cardinality({j \in 1..Len(d) : d[j].userID = u})

python_chrono_split(d, pct) ==
  LET s == SortByUserTime(d)
      inTrain == [k \in 1..Len(s) |->
                    RankInUser(s, k) <= RoundPct(pct, CountOfUser(s, s[k].userID))]
  IN <<Mask(s, inTrain), Mask(s, [k \in 1..Len(s) |-> ~inTrain[k]])>>

(***************************************************************************)
(* DataFrame.to_csv(path, index=...) and reading the file back.            *)
(***************************************************************************)
to_csv(d, index) ==
  [header |-> IF index THEN <<"">> \o Columns ELSE Columns,
   rows   |-> [k \in 1..Len(d) |->
                 LET line == <<d[k].userID, d[k].itemID, d[k].rating, d[k].timestamp>>
                 IN IF index THEN <<d[k].index>> \o line ELSE line]]

\* position of a column name in a header (0: absent)
ColumnAt(header, name) ==
  IF \E c \in 1..Len(header) : header[c] = name
  THEN CHOOSE c \in 1..Len(header) : header[c] = name
  ELSE 0

\* csv.DictReader over the file: each line as a mapping from the header names
read_csv(f) ==
  [k \in 1..Len(f.rows) |->
     [userID    |-> f.rows[k][ColumnAt(f.header, "userID")],
      itemID    |-> f.rows[k][ColumnAt(f.header, "itemID")],
      rating    |-> f.rows[k][ColumnAt(f.header, "rating")],
      timestamp |-> f.rows[k][ColumnAt(f.header, "timestamp")]]]

(***************************************************************************)
(* NCFDataset(train_file, test_file, seed): indexes the two files, writes  *)
(* the leave-one-out file next to the test file and indexes it too.        *)
(***************************************************************************)
NCFDataset(contents, trainPath, testPath, seed) ==
  LET tr == read_csv(contents[trainPath])
  IN [train   |-> tr,
      test    |-> read_csv(contents[testPath]),
      n_users |-> Cardinality(Range(Column(tr, "userID"))),
      n_items |-> Cardinality(Range(Column(tr, "itemID"))),
      seed    |-> seed]

\* the files the constructor leaves on disk
NCFDatasetFiles(testPath) == {test_full_file}

(***************************************************************************)
(* NCF(n_users, n_items, ..., n_epochs=EPOCHS, seed=SEED), fit, predict.   *)
(***************************************************************************)
NCF(nUsers, nItems, nEpochs, seed) ==
  [n_users |-> nUsers, n_items |-> nItems, n_epochs |-> nEpochs, seed |-> seed,
   epochs_done |-> 0, weights |-> <<>>]

\* the items the fitted model has a score for
ModelItems(d) == Range(Column(d.train, "itemID"))

\* model.predict(user, item, is_list=True): one score for each pair
predict(m, user, item) == [k \in 1..Len(item) |-> m.weights[item[k]]]

(***************************************************************************)
(* The prediction cell.                                                    *)
(***************************************************************************)
\* mutant: for user in train.userID
PredictUsersNotUnique(tr) == Column(tr, "userID")

\* for user in train.userID.unique()
PredictUsers(tr) == unique(Column(tr, "userID"))

\* item = list(train.itemID.unique())
PredictItems(tr) == unique(Column(tr, "itemID"))

\* s repeated n times, [user] * len(item)
Repeat(x, n) == [k \in 1..n |-> x]

\* the three lists users, items, preds after the loop, as rows
RECURSIVE PredictionLoop(_, _, _)
PredictionLoop(m, us, item) ==
  IF us = <<>> THEN <<>>
  ELSE LET user == Repeat(us[Len(us)], Len(item))
           preds == predict(m, user, item)
       IN PredictionLoop(m, SubSeq(us, 1, Len(us) - 1), item)
            \o [k \in 1..Len(item) |->
                  [userID |-> user[k], itemID |-> item[k], prediction |-> <<preds[k]>>]]

Key(r) == <<r.userID, r.itemID>>
RowsWithKey(d, key) == Mask(d, [k \in 1..Len(d) |-> Key(d[k]) = key])

\* the rows of an outer merge that carry one key
MergeKey(left, right, key) ==
  LET L == RowsWithKey(left, key)
      R == RowsWithKey(right, key)
      row(u, i, r, t, p) ==
        [userID |-> u, itemID |-> i, rating |-> r, timestamp |-> t, prediction |-> p]
  IN IF R = <<>>
     THEN [n \in 1..Len(L) |->
             row(key[1], key[2], <<L[n].rating>>, <<L[n].timestamp>>, NaN)]
     ELSE IF L = <<>>
     THEN [n \in 1..Len(R) |-> row(key[1], key[2], NaN, NaN, R[n].prediction)]
     ELSE [n \in 1..(Len(L) * Len(R)) |->
             LET l == L[((n - 1) \div Len(R)) + 1]
                 r == R[((n - 1) % Len(R)) + 1]
             IN row(key[1], key[2], <<l.rating>>, <<l.timestamp>>, r.prediction)]

RECURSIVE MergeKeys(_, _, _)
MergeKeys(left, right, keys) ==
  IF keys = <<>> THEN <<>>
  ELSE MergeKeys(left, right, SubSeq(keys, 1, Len(keys) - 1))
         \o MergeKey(left, right, keys[Len(keys)])

\* mutant: how="inner", only the keys both frames have
merge_inner(left, right) ==
  MergeKeys(left, right,
            SetToSortedSeq({Key(left[k]) : k \in 1..Len(left)}
                             \cap {Key(right[k]) : k \in 1..Len(right)}))

\* pd.merge(left, right, on=["userID", "itemID"], how="outer"): keys sorted
merge_outer(left, right) ==
  MergeKeys(left, right,
            SetToSortedSeq({Key(left[k]) : k \in 1..Len(left)}
                             \cup {Key(right[k]) : k \in 1..Len(right)}))

\* mutant: merged.drop('rating', axis=1) without the isnull mask
UnseenOnlyUnfiltered(merged) ==
  [k \in 1..Len(merged) |->
     [userID |-> merged[k].userID, itemID |-> merged[k].itemID,
      timestamp |-> merged[k].timestamp, prediction |-> merged[k].prediction]]

\* merged[merged.rating.isnull()].drop('rating', axis=1)
UnseenOnly(merged) ==
  LET kept == Mask(merged, [k \in 1..Len(merged) |-> isnull(merged[k].rating)])
  IN [k \in 1..Len(kept) |->
        [userID |-> kept[k].userID, itemID |-> kept[k].itemID,
         timestamp |-> kept[k].timestamp, prediction |-> kept[k].prediction]]

\* all_predictions at the end of the prediction cell
PredictionCell(m, tr) ==
  UnseenOnly(merge_outer(tr, PredictionLoop(m, PredictUsers(tr), PredictItems(tr))))

(***************************************************************************)
(* The ranking metrics of recommenders.evaluation.python_evaluation, as    *)
(* exact fractions.  Each takes the true ratings, the predictions and k.   *)
(***************************************************************************)
Frac(n, d) == [num |-> n, den |-> d]
FracAdd(a, b) == Frac(a.num * b.den + b.num * a.den, a.den * b.den)

RECURSIVE FracSum(_)
FracSum(fs) ==
  IF fs = <<>> THEN Frac(0, 1)
  ELSE FracAdd(FracSum(SubSeq(fs, 1, Len(fs) - 1)), fs[Len(fs)])

RECURSIVE IntSum(_)
IntSum(ns) ==
  IF ns = <<>> THEN 0 ELSE IntSum(SubSeq(ns, 1, Len(ns) - 1)) + ns[Len(ns)]

\* the mean over n users of per-user fractions (0.0 when there is no user)
MeanOver(fs, n) ==
  IF n = 0 \/ fs = <<>> THEN Frac(0, 1)
  ELSE LET t == FracSum(fs) IN Frac(t.num, t.den * n)

\* 1000 / ln(1 + rank), for the ranks 1..10
Discount == <<1443, 910, 721, 621, 558, 514, 481, 455, 434, 417>>

\* stable insertion into a frame sorted by prediction, highest first
RECURSIVE InsertByScore(_, _)
InsertByScore(s, r) ==
  IF s = <<>> THEN <<r>>
  ELSE IF r.prediction[1] > s[Len(s)].prediction[1]
       THEN Append(InsertByScore(SubSeq(s, 1, Len(s) - 1), r), s[Len(s)])
       ELSE Append(s, r)

RECURSIVE SortByScore(_)
SortByScore(s) ==
  IF s = <<>> THEN <<>>
  ELSE InsertByScore(SortByScore(SubSeq(s, 1, Len(s) - 1)), s[Len(s)])

RowsOfUser(d, u) == Mask(d, [k \in 1..Len(d) |-> d[k].userID = u])

\* get_top_k_items: a user's k best predictions; the position is the rank
TopK(pred, u, k) ==
  LET ranked == SortByScore(RowsOfUser(pred, u))
  IN SubSeq(ranked, 1, IF Len(ranked) < k THEN Len(ranked) ELSE k)

\* the users both frames have, in ascending order
RECURSIVE SortedInts(_)
SortedInts(S) ==
  IF S = {} THEN <<>>
  ELSE LET m == CHOOSE x \in S : \A y \in S : y <= x
       IN Append(SortedInts(S \ {m}), m)

CommonUsers(true, pred) ==
  SortedInts(Range(Column(true, "userID")) \cap Range(Column(pred, "userID")))

\* the ranks of the top-k rows joined with the user's true rows on the item:
\* one entry for every matching pair of rows, in rank order
RECURSIVE HitRanks(_, _, _)
HitRanks(top, trueRows, r) ==
  IF r = 0 THEN <<>>
  ELSE HitRanks(top, trueRows, r - 1)
         \o Repeat(r, Cardinality({j \in 1..Len(trueRows) :
                                     trueRows[j].itemID = top[r].itemID}))

UserHits(true, pred, u, k) ==
  LET top == TopK(pred, u, k) IN HitRanks(top, RowsOfUser(true, u), Len(top))

Actual(true, u) == Len(RowsOfUser(true, u))

precision_at_k(true, pred, k) ==
  LET us == CommonUsers(true, pred)
  IN MeanOver([n \in 1..Len(us) |-> Frac(Len(UserHits(true, pred, us[n], k)), k)],
              Len(us))

recall_at_k(true, pred, k) ==
  LET us == CommonUsers(true, pred)
  IN MeanOver([n \in 1..Len(us) |->
                 Frac(Len(UserHits(true, pred, us[n], k)), Actual(true, us[n]))],
              Len(us))

ndcg_at_k(true, pred, k) ==
  LET us == CommonUsers(true, pred)
      dcg(u) == LET h == UserHits(true, pred, u, k)
                IN IntSum([j \in 1..Len(h) |-> Discount[h[j]]])
      ideal(u) == IF Actual(true, u) < k THEN Actual(true, u) ELSE k
      idcg(u) == IntSum([r \in 1..ideal(u) |-> Discount[r]])
  IN MeanOver([n \in 1..Len(us) |-> Frac(dcg(us[n]), idcg(us[n]))], Len(us))

map_at_k(true, pred, k) ==
  LET us == CommonUsers(true, pred)
      rr(u) == LET h == UserHits(true, pred, u, k)
               IN FracSum([j \in 1..Len(h) |-> Frac(j, h[j])])
      ap(u) == Frac(rr(u).num, rr(u).den * Actual(true, u))
  IN MeanOver([n \in 1..Len(us) |-> ap(us[n])], Len(us))

\* sb.glue(name, value)
glue(book, name, value) == (name :> value) @@ book

(***************************************************************************)
(* State.                                                                  *)
(***************************************************************************)
VARIABLES
  started,          \* the cells the kernel has started, in order
  done,             \* the cells that have completed, in order
  failed,           \* the cell that raised, <<>> while none has
  df, train, test,  \* the notebook's data frames
  files,            \* names of the files on disk
  csv,              \* contents of the files the notebook wrote
  data,             \* the NCFDataset object
  model,            \* the NCF object
  train_time, test_time,   \* the two Timer objects
  all_predictions,
  evals,            \* eval_map, eval_ndcg, eval_precision, eval_recall
  jupyter,          \* what is_jupyter() returned, <<>> before it is called
  glued             \* the scrapbook records of the notebook

vars == <<started, done, failed, df, train, test, files, csv, data, model,
          train_time, test_time, all_predictions, evals, jupyter, glued>>

\* mutant: the cell that writes the files placed above the filter cell
CellOrderWriteBeforeFilter ==
  <<"download", "split", "write_csv", "filter", "dataset", "model",
    "fit", "predict", "score", "record">>

\* the code cells of the notebook that do the pipeline's work, top to bottom
CellOrder ==
  <<"download", "split", "filter", "write_csv", "dataset", "model",
    "fit", "predict", "score", "record">>

\* the cells that are executing now
InProgress == IF failed # <<>> THEN {} ELSE Range(started) \ Range(done)

Init ==
  /\ started = <<>>
  /\ done = <<>>
  /\ failed = <<>>
  /\ df = <<>>
  /\ train = <<>>
  /\ test = <<>>
  /\ files = {}
  /\ csv = <<>>
  /\ data = <<>>
  /\ model = <<>>
  /\ train_time = <<>>
  /\ test_time = <<>>
  /\ all_predictions = <<>>
  /\ evals = <<>>
  /\ jupyter = <<>>
  /\ glued = <<>>

(***************************************************************************)
(* The kernel: cells run one at a time, in the order of the notebook, and  *)
(* an execution stops at the first cell that raises.                       *)
(***************************************************************************)
\* mutant: the kernel goes on to the next cell after an error
CanStartAfterError == InProgress = {} /\ Len(started) < Len(CellOrder)

CanStart == failed = <<>> /\ InProgress = {} /\ Len(started) < Len(CellOrder)

Begin ==
  /\ CanStart
  /\ started' = Append(started, CellOrder[Len(started) + 1])
  /\ UNCHANGED <<done, failed, df, train, test, files, csv, data, model,
                 train_time, test_time, all_predictions, evals, jupyter, glued>>

Running(cell) == InProgress = {cell}
Complete(cell) == done' = Append(done, cell) /\ UNCHANGED <<started, failed>>

\* df = movielens.load_pandas_df(size=MOVIELENS_DATA_SIZE, header=[...])
Download ==
  /\ Running("download")
  /\ \E present \in SUBSET (Users \X Items) :
       /\ Cardinality(present) <= MaxRows
       /\ \E ts \in [present -> Times] : df' = RatingsFrame(present, ts)
  /\ Complete("download")
  /\ UNCHANGED <<train, test, files, csv, data, model, train_time, test_time,
                 all_predictions, evals, jupyter, glued>>

\* mutant: test, train = python_chrono_split(df, 0.75)
SplitSwapped ==
  /\ Running("split")
  /\ train' = python_chrono_split(df, SplitRatio)[2]
  /\ test' = python_chrono_split(df, SplitRatio)[1]
  /\ Complete("split")
  /\ UNCHANGED <<df, files, csv, data, model, train_time, test_time,
                 all_predictions, evals, jupyter, glued>>

\* train, test = python_chrono_split(df, 0.75)
Split ==
  /\ Running("split")
  /\ train' = python_chrono_split(df, SplitRatio)[1]
  /\ test' = python_chrono_split(df, SplitRatio)[2]
  /\ Complete("split")
  /\ UNCHANGED <<df, files, csv, data, model, train_time, test_time,
                 all_predictions, evals, jupyter, glued>>

\* mutant: the filter on itemID left out
FilterTestUsersOnly(tr, te) ==
  Mask(te, [k \in 1..Len(te) |-> isin(te[k].userID, unique(Column(tr, "userID")))])

\* test = test[test["userID"].isin(train["userID"].unique())]
\* test = test[test["itemID"].isin(train["itemID"].unique())]
FilterTest(tr, te) ==
  LET byUser == Mask(te, [k \in 1..Len(te) |->
                            isin(te[k].userID, unique(Column(tr, "userID")))])
  IN Mask(byUser, [k \in 1..Len(byUser) |->
                     isin(byUser[k].itemID, unique(Column(tr, "itemID")))])

Filter ==
  /\ Running("filter")
  /\ test' = FilterTest(train, test)
  /\ Complete("filter")
  /\ UNCHANGED <<df, train, files, csv, data, model, train_time, test_time,
                 all_predictions, evals, jupyter, glued>>

\* mutant: to_csv with its default index=True
WriteCsvWithIndex ==
  /\ Running("write_csv")
  /\ files' = files \cup {train_file, test_file}
  /\ csv' = (train_file :> to_csv(train, TRUE)) @@ (test_file :> to_csv(test, TRUE))
  /\ Complete("write_csv")
  /\ UNCHANGED <<df, train, test, data, model, train_time, test_time,
                 all_predictions, evals, jupyter, glued>>

\* train.to_csv(train_file, index=False); test.to_csv(test_file, index=False)
WriteCsv ==
  /\ Running("write_csv")
  /\ files' = files \cup {train_file, test_file}
  /\ csv' = (train_file :> to_csv(train, FALSE)) @@ (test_file :> to_csv(test, FALSE))
  /\ Complete("write_csv")
  /\ UNCHANGED <<df, train, test, data, model, train_time, test_time,
                 all_predictions, evals, jupyter, glued>>

\* data = NCFDataset(train_file=train_file, test_file=test_file, seed=SEED)
BuildDataset ==
  /\ Running("dataset")
  /\ {train_file, test_file} \subseteq files
  /\ data' = NCFDataset(csv, train_file, test_file, SEED)
  /\ files' = files \cup NCFDatasetFiles(test_file)
  /\ Complete("dataset")
  /\ UNCHANGED <<df, train, test, csv, model, train_time, test_time,
                 all_predictions, evals, jupyter, glued>>

\* model = NCF(n_users=data.n_users, n_items=data.n_items, ..., n_epochs=EPOCHS,
\*             ..., seed=SEED)
InstantiateModel ==
  /\ Running("model")
  /\ data # <<>>
  /\ model' = NCF(data.n_users, data.n_items, EPOCHS, SEED)
  /\ Complete("model")
  /\ UNCHANGED <<df, train, test, files, csv, data, train_time, test_time,
                 all_predictions, evals, jupyter, glued>>

\* with Timer() as train_time: model.fit(data)
Fit ==
  /\ Running("fit")
  /\ model # <<>>
  /\ \E w \in [ModelItems(data) -> Scores] :
       model' = [model EXCEPT !.epochs_done = model.n_epochs, !.weights = w]
  /\ train_time' = [interval |-> EpochSeconds * model.n_epochs]
  /\ Complete("fit")
  /\ UNCHANGED <<df, train, test, files, csv, data, test_time,
                 all_predictions, evals, jupyter, glued>>

\* model.fit(data) is interrupted or raises part of the way: the Timer stops, the
\* exception leaves the cell
FitInterrupted ==
  /\ Running("fit")
  /\ model # <<>>
  /\ InterruptedAfter < model.n_epochs
  /\ model' = [model EXCEPT !.epochs_done = InterruptedAfter]
  /\ train_time' = [interval |-> EpochSeconds * InterruptedAfter]
  /\ failed' = <<"fit">>
  /\ UNCHANGED <<started, done, df, train, test, files, csv, data, test_time,
                 all_predictions, evals, jupyter, glued>>

\* with Timer() as test_time: ... the loop over the users, the merge, the filter
Predict ==
  /\ Running("predict")
  /\ model # <<>> /\ model.weights # <<>>
  /\ all_predictions' = PredictionCell(model, train)
  /\ test_time' = [interval |-> PredictSeconds]
  /\ Complete("predict")
  /\ UNCHANGED <<df, train, test, files, csv, data, model, train_time,
                 evals, jupyter, glued>>

\* eval_map = map_at_k(test, all_predictions, col_prediction='prediction', k=TOP_K) ...
Score ==
  /\ Running("score")
  /\ evals' = [map       |-> map_at_k(test, all_predictions, TOP_K),
               ndcg      |-> ndcg_at_k(test, all_predictions, TOP_K),
               precision |-> precision_at_k(test, all_predictions, TOP_K),
               recall    |-> recall_at_k(test, all_predictions, TOP_K)]
  /\ Complete("score")
  /\ UNCHANGED <<df, train, test, files, csv, data, model, train_time, test_time,
                 all_predictions, jupyter, glued>>

\* mutant: the two timers glued under each other's key
GlueAllTimersSwapped(book) ==
  glue(glue(glue(glue(glue(glue(book,
    "map", evals.map),
    "ndcg", evals.ndcg),
    "precision", evals.precision),
    "recall", evals.recall),
    "train_time", test_time.interval),
    "test_time", train_time.interval)

\* the six sb.glue calls of the last cell
GlueAll(book) ==
  glue(glue(glue(glue(glue(glue(book,
    "map", evals.map),
    "ndcg", evals.ndcg),
    "precision", evals.precision),
    "recall", evals.recall),
    "train_time", train_time.interval),
    "test_time", test_time.interval)

\* mutant: the sb.glue calls outside the if
RecordAlways ==
  /\ Running("record")
  /\ evals # <<>> /\ train_time # <<>> /\ test_time # <<>>
  /\ \E answer \in BOOLEAN : jupyter' = <<answer>>
  /\ glued' = GlueAll(glued)
  /\ Complete("record")
  /\ UNCHANGED <<df, train, test, files, csv, data, model, train_time, test_time,
                 all_predictions, evals>>

\* if is_jupyter(): sb.glue(...)
Record ==
  /\ Running("record")
  /\ evals # <<>> /\ train_time # <<>> /\ test_time # <<>>
  /\ \E answer \in BOOLEAN :
       /\ jupyter' = <<answer>>
       /\ glued' = IF answer THEN GlueAll(glued) ELSE glued
  /\ Complete("record")
  /\ UNCHANGED <<df, train, test, files, csv, data, model, train_time, test_time,
                 all_predictions, evals>>

\* a cell raises: the error is the cell's output and the execution ends
Fail ==
  /\ \E cell \in InProgress : failed' = <<cell>>
  /\ UNCHANGED <<started, done, df, train, test, files, csv, data, model,
                 train_time, test_time, all_predictions, evals, jupyter, glued>>

Next ==
  \/ Begin
  \/ Download
  \/ Split
  \/ Filter
  \/ WriteCsv
  \/ BuildDataset
  \/ InstantiateModel
  \/ Fit
  \/ FitInterrupted
  \/ Predict
  \/ Score
  \/ Record
  \/ Fail

Spec == Init /\ [][Next]_vars


(***************************************************************************)
(* Properties.                                                             *)
(***************************************************************************)
Done(cell) == cell \in Range(done)
Started(cell) == cell \in Range(started)
Pairs(d) == {<<d[k].userID, d[k].itemID>> : k \in 1..Len(d)}
TheSplit == python_chrono_split(df, SplitRatio)

\* the order of the pipeline's steps
PipelineOrder ==
  <<"download", "split", "filter", "write_csv", "dataset", "model",
    "fit", "predict", "score", "record">>

\* C1: the steps run strictly in the order download, split, filter, write CSV,
\* build dataset, instantiate model, fit, predict, score, record: the steps
\* started so far are an initial part of that order, a step is started only when
\* every step before it has completed, and at most one step is in progress.
C1_StrictOrder ==
  /\ Len(started) <= Len(PipelineOrder)
  /\ \A k \in 1..Len(started) : started[k] = PipelineOrder[k]
  /\ Len(done) <= Len(started)
  /\ \A k \in 1..Len(done) : done[k] = started[k]
  /\ Len(started) <= Len(done) + 1
  /\ Cardinality(Range(started) \ Range(done)) <= 1
  /\ Cardinality(InProgress) <= 1

C1_Witness == done = PipelineOrder

\* C2: once the filter step has completed, every test row's userID is the userID
\* of some train row and its itemID is the itemID of some train row.
C2_TestWithinTrain ==
  Done("filter") =>
    \A k \in 1..Len(test) :
      /\ \E j \in 1..Len(train) : train[j].userID = test[k].userID
      /\ \E j \in 1..Len(train) : train[j].itemID = test[k].itemID

\* a test row survives the filter, its item known from another user's train rows
C2_Witness ==
  /\ Done("filter")
  /\ test # <<>>
  /\ \E k \in 1..Len(test) : \E j \in 1..Len(train) :
       train[j].itemID = test[k].itemID /\ train[j].userID # test[k].userID

\* C3: once the prediction step has completed, no row of all_predictions has a
\* (userID, itemID) pair that occurs in the training set.
C3_NoSeenItem ==
  Done("predict") =>
    \A k \in 1..Len(all_predictions) :
      <<all_predictions[k].userID, all_predictions[k].itemID>> \notin Pairs(train)

C3_Witness ==
  Done("predict") /\ all_predictions # <<>> /\ Len(train) >= 3

\* C4: right after the split every row of df is in exactly one of train and test,
\* for each user no train row has a later timestamp than a test row of that user,
\* and each user's share of train rows is 0.75 of the user's rows, rounded.
C4_ChronoPartition ==
  (Done("split") /\ ~Done("filter")) =>
    /\ Len(train) + Len(test) = Len(df)
    /\ \A k \in 1..Len(df) :
         Cardinality({j \in 1..Len(train) : train[j] = df[k]})
           + Cardinality({j \in 1..Len(test) : test[j] = df[k]}) = 1
    /\ \A a \in 1..Len(train) : \A b \in 1..Len(test) :
         train[a].userID = test[b].userID => train[a].timestamp <= test[b].timestamp
    /\ \A u \in Users :
         LET n == Cardinality({k \in 1..Len(df) : df[k].userID = u})
             t == Cardinality({k \in 1..Len(train) : train[k].userID = u})
         IN 4 * t - 3 * n <= 2 /\ 3 * n - 4 * t <= 2

\* the split has put a row in test, and the time order is not the row order
C4_Witness ==
  /\ Done("split") /\ ~Done("filter")
  /\ test # <<>>
  /\ \E k \in 1..Len(df) : \E j \in 1..Len(df) :
       k < j /\ df[k].userID = df[j].userID /\ df[j].timestamp < df[k].timestamp

\* C5: a failure ends the execution: no step of any kind follows it (no retry,
\* no recovery, no later cell), the failed step is never completed, no step
\* was started after it, and nothing is predicted, scored or recorded from a
\* model whose fit did not complete.
C5_FailureState ==
  /\ failed # <<>> =>
       /\ started # <<>> /\ started[Len(started)] = failed[1]
       /\ ~Done(failed[1])
  /\ (model # <<>> /\ model.epochs_done < model.n_epochs) =>
       /\ ~Started("predict") /\ ~Started("score") /\ ~Started("record")
       /\ all_predictions = <<>> /\ evals = <<>> /\ glued = <<>>

C5_FailurePropagates ==
  /\ []C5_FailureState
  /\ [][failed = <<>>]_vars

\* training was interrupted part of the way
C5_Witness ==
  /\ failed = <<"fit">>
  /\ 0 < model.epochs_done /\ model.epochs_done < EPOCHS
  /\ train_time # <<>>

GluedKeys == {"map", "ndcg", "precision", "recall", "train_time", "test_time"}

\* C6: nothing is recorded before the record step; after it, when is_jupyter()
\* was true exactly the six keys are recorded, each with the value the score
\* step and the two timers computed, and when it was false nothing is recorded.
C6_RecordOptionalComplete ==
  /\ ~Done("record") => glued = <<>> /\ jupyter = <<>>
  /\ Done("record") =>
       /\ jupyter \in {<<TRUE>>, <<FALSE>>}
       /\ jupyter = <<FALSE>> => glued = <<>>
       /\ jupyter = <<TRUE>> =>
            /\ DOMAIN glued = GluedKeys
            /\ glued["map"] = evals.map
            /\ glued["ndcg"] = evals.ndcg
            /\ glued["precision"] = evals.precision
            /\ glued["recall"] = evals.recall
            /\ glued["train_time"] = train_time.interval
            /\ glued["test_time"] = test_time.interval

C6_Witness ==
  /\ Done("record") /\ jupyter = <<TRUE>>
  /\ train_time.interval # test_time.interval
  /\ evals.recall.num > 0

\* the lines a frame should give: the four columns of each row, in order
FourColumns(d) ==
  [k \in 1..Len(d) |-> <<d[k].userID, d[k].itemID, d[k].rating, d[k].timestamp>>]

\* C7: from the moment the dataset object is being built, ./train.csv holds
\* exactly the train rows and ./test.csv exactly the filtered test rows, each
\* under the header userID, itemID, rating, timestamp with no index column.
C7_FilesReflectFiltered ==
  Started("dataset") =>
    /\ Done("filter")
    /\ {train_file, test_file} \subseteq files
    /\ DOMAIN csv = {train_file, test_file}
    /\ csv[train_file].header = <<"userID", "itemID", "rating", "timestamp">>
    /\ csv[test_file].header = <<"userID", "itemID", "rating", "timestamp">>
    /\ csv[train_file].rows = FourColumns(train)
    /\ csv[test_file].rows = FourColumns(test)
    /\ test = FilterTest(TheSplit[1], TheSplit[2])

C7_Witness == Done("dataset") /\ test # <<>> /\ Len(data.train) = Len(train)

InUnitInterval(f) == f.den > 0 /\ 0 <= f.num /\ f.num <= f.den

C9_OnlyTrainAndTestCsv ==
  files \subseteq {train_file, test_file} /\ glued = <<>>

\* C9 amended: the persistent outputs are the train and test CSV files, the
\* ./test_full.csv the dataset constructor writes, and, only when is_jupyter()
\* was true, the six recorded values; nothing else is written, and the data
\* files appear only with the steps that write them.
C9_PersistentOutputs ==
  /\ files \subseteq {train_file, test_file, test_full_file}
  /\ ~Done("write_csv") => files = {}
  /\ test_full_file \in files => Started("dataset")
  /\ DOMAIN glued \subseteq GluedKeys
  /\ glued # <<>> => jupyter = <<TRUE>> /\ Done("record")

C9_Witness ==
  /\ Done("record") /\ jupyter = <<FALSE>>
  /\ files = {train_file, test_file, test_full_file}

\* C10: once the prediction step has completed, all_predictions holds exactly
\* one row for every pair of a train user and a train item that is not a train
\* pair, and no other row.
C10_AllUnseenPairsOnce ==
  Done("predict") =>
    LET us == {train[k].userID : k \in 1..Len(train)}
        is == {train[k].itemID : k \in 1..Len(train)}
        unseen == (us \X is) \ Pairs(train)
    IN /\ \A p \in unseen :
            Cardinality({k \in 1..Len(all_predictions) :
                           <<all_predictions[k].userID, all_predictions[k].itemID>> = p}) = 1
       /\ \A k \in 1..Len(all_predictions) :
            <<all_predictions[k].userID, all_predictions[k].itemID>> \in unseen
       /\ Len(all_predictions) = Cardinality(unseen)

C10_Witness ==
  /\ Done("predict")
  /\ Len(all_predictions) >= 2
  /\ Cardinality(Pairs(train)) >= 3

=============================================================================
